---- MODULE Spec2Model ----
(***************************************************************************)
(* huedo: a command-line client for a Philips Hue bridge.                  *)
(* One behaviour of this module is one process invocation: main()          *)
(* dispatches on the command, the handler builds a HueDoClient (which      *)
(* loads the YAML config) and talks to the bridge through                  *)
(* HueDoClient.call.  The bridge is an external collaborator: every        *)
(* request it receives is answered by a nondeterministic choice among a    *)
(* transport failure, a non-200 status, a 200 whose body is not JSON and   *)
(* the 200 JSON answers the request admits.                                *)
(***************************************************************************)
EXTENDS Integers, Sequences, FiniteSets, TLC

(* Bounds of the model *)
MaxLight == 2
MaxGroupLen == 2

(* r.status_code != 200 *)
HTTP_OK == 200

Lights == 1..MaxLight

(***************************************************************************)
(* Text: f-string formatting of integers, int() parsing, str.lower()       *)
(***************************************************************************)
DigitText(d) ==
  CASE d = 0 -> "0" [] d = 1 -> "1" [] d = 2 -> "2" [] d = 3 -> "3"
    [] d = 4 -> "4" [] d = 5 -> "5" [] d = 6 -> "6" [] d = 7 -> "7"
    [] d = 8 -> "8" [] d = 9 -> "9"

RECURSIVE IntText(_)
IntText(n) ==
  IF n < 10 THEN DigitText(n) ELSE IntText(n \div 10) \o DigitText(n % 10)

\* the decimal texts int() is asked to parse in this model
IntRange == 0..(MaxLight + 1)

IsIntText(s) == \E n \in IntRange : IntText(n) = s

ParseInt(s) == CHOOSE n \in IntRange : IntText(n) = s

Lower(m) ==
  CASE m = "GET" -> "get" [] m = "PUT" -> "put" [] m = "Put" -> "put"
    [] m = "POST" -> "post" [] m = "FOO" -> "foo" [] OTHER -> m

\* the HTTP verb functions of the requests module that getattr can resolve
RequestsFuncs == {"get", "put", "post", "delete", "patch", "head", "options"}

\* "x in 'lights'": thing_types = ("lights") is a string, so `in` is a
\* substring test
InThingTypes(s) ==
  s \in {"", "l", "li", "lig", "ligh", "light", "lights", "i", "ig", "igh",
         "ight", "ights", "g", "gh", "ght", "ghts", "h", "ht", "hts", "t",
         "ts", "s"}

(***************************************************************************)
(* Python values held in request bodies, and their JSON / repr texts       *)
(***************************************************************************)
None == [t |-> "none", b |-> FALSE, n |-> 0, s |-> ""]
BoolV(x) == [t |-> "bool", b |-> x, n |-> 0, s |-> ""]
IntV(x) == [t |-> "int", b |-> FALSE, n |-> x, s |-> ""]
StrV(x) == [t |-> "str", b |-> FALSE, n |-> 0, s |-> x]

ValueJson(v) ==
  CASE v.t = "bool" -> (IF v.b THEN "true" ELSE "false")
    [] v.t = "int" -> IntText(v.n)
    [] v.t = "str" -> "\"" \o v.s \o "\""
    [] OTHER -> "null"

ValueRepr(v) ==
  CASE v.t = "bool" -> (IF v.b THEN "True" ELSE "False")
    [] v.t = "int" -> IntText(v.n)
    [] v.t = "str" -> "'" \o v.s \o "'"
    [] OTHER -> "None"

\* a dict is the sequence of its <<key, value>> items in insertion order
RECURSIVE JoinItems(_, _)
JoinItems(d, kind) ==
  IF d = <<>> THEN ""
  ELSE LET item == IF kind = "json"
                   THEN "\"" \o d[1][1] \o "\": " \o ValueJson(d[1][2])
                   ELSE "'" \o d[1][1] \o "': " \o ValueRepr(d[1][2])
       IN  IF Len(d) = 1 THEN item
           ELSE item \o ", " \o JoinItems(Tail(d), kind)

JsonDumps(d) == "{" \o JoinItems(d, "json") \o "}"

DictRepr(d) == "{" \o JoinItems(d, "repr") \o "}"

DictKeys(d) == {d[i][1] : i \in 1..Len(d)}

DictGet(d, k) == d[CHOOSE i \in 1..Len(d) : d[i][1] = k][2]

\* json.loads of the body argument of `raw`
JsonLoads(s) ==
  CASE s = "{}" -> [valid |-> TRUE, dict |-> <<>>]
    [] s = "{\"on\": true}" -> [valid |-> TRUE, dict |-> <<<<"on", BoolV(TRUE)>>>>]
    [] s = "{\"on\": false}" -> [valid |-> TRUE, dict |-> <<<<"on", BoolV(FALSE)>>>>]
    [] OTHER -> [valid |-> FALSE, dict |-> <<>>]

(***************************************************************************)
(* Exceptions                                                              *)
(***************************************************************************)
Exc(type, msg) == [type |-> type, msg |-> msg, code |-> 1]
NoExc == [type |-> "", msg |-> "", code |-> 0]
HueDoError(msg) == Exc("HueDoError", msg)

\* json.JSONDecodeError (raised by r.json()) and requests' InvalidURL derive
\* from ValueError
IsValueError(e) == e.type \in {"ValueError", "JSONDecodeError", "InvalidURL"}

(***************************************************************************)
(* Bridge answers.  content is the raw body; Json(content) is r.json()     *)
(***************************************************************************)
LightText(on) ==
  "{\"name\": \"lamp\", \"swversion\": \"1.0\", \"state\": {\"on\": "
    \o (IF on THEN "true" ELSE "false") \o ", \"bri\": 120}}"

NoSuchLightText == "[{\"error\": {\"description\": \"resource not available\"}}]"
PutOkText == "[{\"success\": {}}]"
LightsText == "{\"1\": {\"name\": \"lamp\"}}"
PairedText(u) == "[{\"success\": {\"username\": \"" \o u \o "\"}}]"
PairErrText(d) == "[{\"error\": {\"description\": \"" \o d \o "\"}}]"

Usernames == {"abc", "xyz"}
Descriptions == {"link button not pressed"}

Elem(keys, on, username, description) ==
  [keys |-> keys, on |-> on, username |-> username, description |-> description]

JsonValue(isList, elems) == [valid |-> TRUE, isList |-> isList, elems |-> elems]

\* r.json(): a parsed body is a list of objects, or one object; an object is
\* given by the keys it has and the payload under them
Json(content) ==
  CASE content = LightText(TRUE) ->
         JsonValue(FALSE, <<Elem({"name", "swversion", "state"}, TRUE, "", "")>>)
    [] content = LightText(FALSE) ->
         JsonValue(FALSE, <<Elem({"name", "swversion", "state"}, FALSE, "", "")>>)
    [] content = NoSuchLightText ->
         JsonValue(TRUE, <<Elem({"error"}, FALSE, "", "resource not available")>>)
    [] content = PutOkText -> JsonValue(TRUE, <<Elem({"success"}, FALSE, "", "")>>)
    [] content = LightsText -> JsonValue(FALSE, <<Elem({"1"}, FALSE, "", "")>>)
    [] \E u \in Usernames : content = PairedText(u) ->
         JsonValue(TRUE, <<Elem({"success"}, FALSE,
                                CHOOSE u \in Usernames : content = PairedText(u), "")>>)
    [] \E d \in Descriptions : content = PairErrText(d) ->
         JsonValue(TRUE, <<Elem({"error"}, FALSE, "",
                                CHOOSE d \in Descriptions : content = PairErrText(d))>>)
    [] content = "[]" -> JsonValue(TRUE, <<>>)
    [] content = "[{}]" -> JsonValue(TRUE, <<Elem({}, FALSE, "", "")>>)
    [] content = "{}" -> JsonValue(FALSE, <<Elem({}, FALSE, "", "")>>)
    [] OTHER -> [valid |-> FALSE, isList |-> FALSE, elems |-> <<>>]

\* delivered = FALSE: requests raised instead of returning a response;
\* failure names the exception
Response(delivered, failure, status, content) ==
  [delivered |-> delivered, failure |-> failure, status_code |-> status,
   content |-> content]

\* what requests.<method>(url) may produce for a request to `host` whose
\* 200 JSON answers are okContents: a URL without a host is refused before
\* anything is sent (InvalidURL, a ValueError); otherwise the transport may
\* fail, or the bridge answers
Answers(host, okContents) ==
  IF host = ""
  THEN {Response(FALSE, "InvalidURL", 0, "")}
  ELSE {Response(FALSE, "ConnectionError", 0, "")}
         \cup {Response(TRUE, "", 500, "oops"), Response(TRUE, "", 201, "created")}
         \cup {Response(TRUE, "", HTTP_OK, "<html>")}
         \cup {Response(TRUE, "", HTTP_OK, c) : c \in okContents}

(***************************************************************************)
(* The config file and HueDoConfig                                         *)
(***************************************************************************)
SeqsUpTo(S, n) == UNION {[1..k -> S] : k \in 0..n}

GroupNames == {"den", "1"}

HubOnDisk == [ip |-> "10.0.0.2", user |-> "tok"]

\* the documents yaml.safe_load may return: a hub section, and optionally a
\* lightgroups section naming one group
ConfigDocs ==
  {[hub |-> HubOnDisk]}
    \cup {[hub |-> HubOnDisk, lightgroups |-> (g :> [lights |-> ls])] :
            g \in GroupNames, ls \in SeqsUpTo(Lights, MaxGroupLen)}

DefaultConfig == [hub |-> [ip |-> "", user |-> ""]]

\* HueDoConfig.__init__ / _load; the file is {} when absent, {doc} otherwise
Load(file) ==
  IF file = {} THEN [loaded |-> TRUE, config |-> DefaultConfig]
  ELSE [loaded |-> TRUE, config |-> CHOOSE d \in file : TRUE]

NotConstructed == [loaded |-> FALSE, config |-> DefaultConfig]

BuildUrl(cfg, fragment) ==
  "https://" \o cfg.hub.ip \o "/api/" \o cfg.hub.user \o "/" \o fragment

\* mutant: an unknown group is an empty group
GetLightgroupLenient(cfg, group_name) ==
  IF "lightgroups" \notin DOMAIN cfg
  THEN [exc |-> Exc("KeyError", "'lightgroups'"), lights |-> <<>>]
  ELSE IF group_name \in DOMAIN cfg.lightgroups
       THEN [exc |-> NoExc, lights |-> cfg.lightgroups[group_name].lights]
       ELSE [exc |-> NoExc, lights |-> <<>>]

\* HueDoConfig.get_lightgroup: [exc, lights]
GetLightgroup(cfg, group_name) ==
  IF "lightgroups" \notin DOMAIN cfg
  THEN [exc |-> Exc("KeyError", "'lightgroups'"), lights |-> <<>>]
  ELSE IF group_name \in DOMAIN cfg.lightgroups
       THEN [exc |-> NoExc, lights |-> cfg.lightgroups[group_name].lights]
       ELSE [exc |-> HueDoError("Unconfigured light group " \o group_name),
             lights |-> <<>>]

\* mutant: only the username is stored
UpdateUserOnly(cfg, hub_addr, user) ==
  [cfg EXCEPT !.hub = [ip |-> cfg.hub.ip, user |-> user]]

\* HueDoConfig.update_user: the new in-memory config (which _save then dumps)
UpdateUser(cfg, hub_addr, user) ==
  [cfg EXCEPT !.hub = [ip |-> hub_addr, user |-> user]]

(***************************************************************************)
(* HueDoClient                                                             *)
(***************************************************************************)
BytesRepr(content) == "b'" \o content \o "'"

\* the request HueDoClient.call sends: data is <<>> for None
Request(method, url, body) ==
  [method |-> Lower(method), url |-> url,
   data |-> IF body # <<>> THEN <<JsonDumps(body)>> ELSE <<>>]

\* mutant: the status code is not looked at
CallUnchecked(r) ==
  IF ~r.delivered
  THEN [exc |-> Exc(r.failure, ""), result |-> Json("")]
  ELSE IF ~Json(r.content).valid
  THEN [exc |-> Exc("JSONDecodeError", "Expecting value"), result |-> Json("")]
  ELSE [exc |-> NoExc, result |-> Json(r.content)]

\* what HueDoClient.call makes of the response: [exc, result]
Call(r) ==
  IF ~r.delivered
  THEN [exc |-> Exc(r.failure, ""), result |-> Json("")]
  ELSE IF r.status_code # HTTP_OK
  THEN [exc |-> HueDoError("Got unexpected response code "
                             \o IntText(r.status_code) \o ": "
                             \o BytesRepr(r.content)),
        result |-> Json("")]
  ELSE IF ~Json(r.content).valid
  THEN [exc |-> Exc("JSONDecodeError", "Expecting value"), result |-> Json("")]
  ELSE [exc |-> NoExc, result |-> Json(r.content)]

\* resp["state"]["on"] in light_is_on: [exc, on]
StateOn(resp) ==
  IF resp.isList
  THEN [exc |-> Exc("TypeError", "list indices must be integers"), on |-> FALSE]
  ELSE IF "state" \notin resp.elems[1].keys
  THEN [exc |-> Exc("KeyError", "'state'"), on |-> FALSE]
  ELSE [exc |-> NoExc, on |-> resp.elems[1].on]

\* mutant: the state read is written back unchanged
NewStateSame(on) == on

\* new_state = not self.light_is_on(light)
NewState(on) == ~on

\* the body toggle_light writes
ToggleBody(new_state) == <<<<"on", BoolV(new_state)>>>>

\* mutant: `if on:` in place of `if on is not None:` (and likewise for the
\* numbers), which drops on = False and 0
StateDictTruthy(on, hue, brightness, saturation) ==
  (IF on # None /\ on.b THEN <<<<"on", on>>>> ELSE <<>>)
    \o (IF hue # None /\ hue.n # 0 THEN <<<<"hue", hue>>>> ELSE <<>>)
    \o (IF brightness # None /\ brightness.n # 0 THEN <<<<"bri", brightness>>>> ELSE <<>>)
    \o (IF saturation # None /\ saturation.n # 0 THEN <<<<"sat", saturation>>>> ELSE <<>>)

\* the state dict set_light_state builds from its keyword arguments
StateDict(on, hue, brightness, saturation) ==
  (IF on # None THEN <<<<"on", on>>>> ELSE <<>>)
    \o (IF hue # None THEN <<<<"hue", hue>>>> ELSE <<>>)
    \o (IF brightness # None THEN <<<<"bri", brightness>>>> ELSE <<>>)
    \o (IF saturation # None THEN <<<<"sat", saturation>>>> ELSE <<>>)

\* on = None / args.state == "on" in the `set` handler
OnOfState(state) == IF state = None THEN None ELSE BoolV(state = StrV("on"))

\* the branch create_user takes on a 200 JSON response
\* [exc, paired, username]
PairingResult(res) ==
  IF res.isList /\ res.elems = <<>>
  THEN [exc |-> Exc("IndexError", "list index out of range"),
        paired |-> FALSE, username |-> ""]
  ELSE IF res.isList /\ "success" \in res.elems[1].keys
  THEN [exc |-> NoExc, paired |-> TRUE, username |-> res.elems[1].username]
  ELSE IF res.isList /\ "error" \in res.elems[1].keys
  THEN [exc |-> HueDoError(res.elems[1].description),
        paired |-> FALSE, username |-> ""]
  ELSE [exc |-> HueDoError("Unexpected response: "
                             \o (IF res.isList THEN "[{}]" ELSE "{}")),
        paired |-> FALSE, username |-> ""]

LightFragment(id) == "lights/" \o id
StateFragment(id) == "lights/" \o id \o "/state"

\* what a PUT does to the bridge's lights once the bridge has accepted it
BridgePut(b, fragment, body, r) ==
  IF /\ r.delivered
     /\ r.status_code = HTTP_OK
     /\ "on" \in DictKeys(body)
     /\ \E l \in Lights : fragment = StateFragment(IntText(l))
  THEN [b EXCEPT ![CHOOSE l \in Lights : fragment = StateFragment(IntText(l))]
                   = DictGet(body, "on").b]
  ELSE b

\* the 200 JSON answer of the bridge to GET lights/{id}
LightContents(b, id) ==
  IF \E l \in Lights : IntText(l) = id
  THEN {LightText(b[CHOOSE l \in Lights : IntText(l) = id])}
  ELSE {NoSuchLightText}

PairingContents ==
  {PairedText(u) : u \in Usernames} \cup {PairErrText(d) : d \in Descriptions}
    \cup {"[]", "[{}]", "{}"}

(***************************************************************************)
(* main(): the end of the process                                          *)
(***************************************************************************)
SystemExit(n) == [type |-> "SystemExit", msg |-> "", code |-> n]

\* HueDoError is caught by main and printed; SystemExit carries its status;
\* any other exception is uncaught: traceback, status 1
ExitStatus(e) == IF e.type \in {"", "HueDoError"} THEN 0 ELSE e.code

DISPATCH_TABLE == {"init", "toggle", "list", "show", "set", "raw"}


(***************************************************************************)
(* State                                                                   *)
(***************************************************************************)
VARIABLES
  disk,       \* the config file: {} when absent, {document} otherwise
  bridge,     \* the bridge's lights: light id -> on
  pc,         \* where the process is
  argv,       \* the command line of this invocation
  config,     \* the HueDoConfig of the client: [loaded, config]
  log,        \* the calls of requests.<method> made so far, each with its outcome
  light,      \* toggle_light: the light being toggled
  new_state,  \* toggle_light: the state to write
  group,      \* toggle_lightgroup: the lights still to toggle
  in_try,     \* the `toggle` handler is inside its try block
  out,        \* lines printed on stdout
  err,        \* lines printed on stderr
  exc,        \* the exception that reached main (NoExc: none)
  exitcode    \* the exit status; -1 while the process runs

vars == <<disk, bridge, pc, argv, config, log, light, new_state, group,
          in_try, out, err, exc, exitcode>>

locals == <<light, new_state, group, in_try>>

Argv(command, arg, method, body, state, hue, brightness, saturation) ==
  [command |-> command, arg |-> arg, method |-> method, body |-> body,
   state |-> state, hue |-> hue, brightness |-> brightness,
   saturation |-> saturation]

NoArgv == Argv("", "", "", "", None, None, None, None)

Init ==
  /\ disk \in {{}} \cup {{d} : d \in ConfigDocs}
  /\ bridge \in [Lights -> BOOLEAN]
  /\ pc = "idle"
  /\ argv = NoArgv
  /\ config = NotConstructed
  /\ log = <<>>
  /\ light = 0
  /\ new_state = FALSE
  /\ group = <<>>
  /\ in_try = FALSE
  /\ out = <<>>
  /\ err = <<>>
  /\ exc = NoExc
  /\ exitcode = -1

\* one entry of the log: the request, its answer, and the client operation
\* that made it
Entry(op, req, r) ==
  [op |-> op, method |-> req.method, url |-> req.url, data |-> req.data,
   delivered |-> r.delivered, failure |-> r.failure, status_code |-> r.status_code,
   content |-> r.content]

\* the process ends: e is the exception that left the handler (NoExc on a
\* normal return), lines what the handler printed before
Finish(e, lines) ==
  /\ pc' = "exited"
  /\ exc' = e
  /\ out' = out \o lines
              \o (IF e.type = "HueDoError" THEN <<"Error: " \o e.msg>> ELSE <<>>)
  /\ err' = IF e.type \in {"", "HueDoError", "SystemExit"} THEN err
            ELSE Append(err, "Traceback: " \o e.type \o ": " \o e.msg)
  /\ exitcode' = ExitStatus(e)

Goto(p) ==
  /\ pc' = p
  /\ UNCHANGED <<out, err, exc, exitcode>>

(***************************************************************************)
(* main and the handlers that make at most one bridge request              *)
(***************************************************************************)
\* main with no command (help, exit 0) or a command outside DISPATCH_TABLE
MainNoHandler(command) ==
  /\ pc = "idle"
  /\ command \notin DISPATCH_TABLE
  /\ argv' = [NoArgv EXCEPT !.command = command]
  /\ IF command = ""
     THEN Finish(SystemExit(0), <<"usage: huedo [--help] [command]">>)
     ELSE Finish(NoExc, <<"Unknown command: " \o command>>)
  /\ UNCHANGED <<disk, bridge, config, log, locals>>

\* huedo init <hub_ip>: init_user and HueDoClient.create_user
InitUser(hub_ip, r) ==
  /\ pc = "idle"
  /\ argv' = [NoArgv EXCEPT !.command = "init", !.arg = hub_ip]
  /\ LET cfg == Load(disk)
         req == Request("POST", "https://" \o hub_ip \o "/api",
                        <<<<"devicetype", StrV("huedo#Linux")>>>>)
         o == Call(r)
         p == PairingResult(o.result)
         e == IF o.exc # NoExc THEN o.exc ELSE p.exc
         saved == UpdateUser(cfg.config, hub_ip, p.username)
     IN  /\ log' = Append(log, Entry("create_user", req, r))
         /\ IF e = NoExc
            THEN /\ config' = [cfg EXCEPT !.config = saved]
                 /\ disk' = {saved}
                 /\ Finish(NoExc, <<"Writing new config">>)
            ELSE /\ config' = cfg
                 /\ disk' = disk
                 /\ Finish(e, <<>>)
  /\ UNCHANGED <<bridge, locals>>

\* huedo list <thing>: list_things and HueDoClient.get_lights
ListThings(thing, r) ==
  /\ pc = "idle"
  /\ argv' = [NoArgv EXCEPT !.command = "list", !.arg = thing]
  /\ config' = Load(disk)
  /\ IF thing = "lights"
     THEN LET req == Request("GET", BuildUrl(config'.config, "lights"), <<>>)
              o == Call(r)
          IN  /\ log' = Append(log, Entry("get_lights", req, r))
              /\ IF o.exc # NoExc THEN Finish(o.exc, <<>>)
                 ELSE IF o.result.isList
                 THEN Finish(Exc("AttributeError", "'list' object has no attribute 'items'"), <<>>)
                 ELSE Finish(Exc("NameError", "name 'thing' is not defined"),
                             <<"ID Name">>)
     ELSE /\ log' = log
          /\ Finish(Exc("NameError", "name 'thing' is not defined"), <<>>)
  /\ UNCHANGED <<disk, bridge, locals>>

\* huedo show <light_id>: show_light_details and HueDoClient.get_light_info
ShowLightDetails(light_id, r) ==
  /\ pc = "idle"
  /\ argv' = [NoArgv EXCEPT !.command = "show", !.arg = light_id]
  /\ config' = Load(disk)
  /\ LET req == Request("GET", BuildUrl(config'.config, LightFragment(light_id)), <<>>)
         o == Call(r)
     IN  /\ log' = Append(log, Entry("get_light_info", req, r))
         /\ IF o.exc # NoExc THEN Finish(o.exc, <<>>)
            ELSE IF o.result.isList
            THEN Finish(Exc("TypeError", "list indices must be integers"), <<>>)
            ELSE IF "name" \notin o.result.elems[1].keys
            THEN Finish(Exc("KeyError", "'name'"), <<>>)
            ELSE Finish(NoExc, <<"Name: lamp">>)
  /\ UNCHANGED <<disk, bridge, locals>>

\* huedo set <light_id> [--state s] [--hue n] [--brightness n]
\* [--saturation n]: the handler and HueDoClient.set_light_state
SetLightState(light_id, state, hue, brightness, saturation, r) ==
  /\ pc = "idle"
  /\ argv' = Argv("set", light_id, "", "", state, hue, brightness, saturation)
  /\ config' = Load(disk)
  /\ LET body == StateDict(OnOfState(state), hue, brightness, saturation)
         req == Request("PUT", BuildUrl(config'.config, StateFragment(light_id)), body)
         o == Call(r)
     IN  IF body = <<>>
         THEN /\ log' = log
              /\ bridge' = bridge
              /\ Finish(NoExc, <<>>)
         ELSE /\ log' = Append(log, Entry("set_light_state", req, r))
              /\ bridge' = BridgePut(bridge, StateFragment(light_id), body, r)
              /\ Finish(o.exc, <<"Settings " \o light_id \o " to state " \o DictRepr(body)>>)
  /\ UNCHANGED <<disk, locals>>

\* huedo raw <fragment> [method] [body]
Raw(fragment, method, body, r) ==
  /\ pc = "idle"
  /\ argv' = [NoArgv EXCEPT !.command = "raw", !.arg = fragment,
                            !.method = method, !.body = body]
  /\ LET parsed == JsonLoads(body)
         cfg == Load(disk)
         req == Request(method, BuildUrl(cfg.config, fragment), parsed.dict)
         o == Call(r)
     IN  IF ~parsed.valid
         THEN \* `except JSONDecodeError` names nothing that is defined
              /\ config' = config
              /\ log' = log
              /\ bridge' = bridge
              /\ Finish(Exc("NameError", "name 'JSONDecodeError' is not defined"), <<>>)
         ELSE IF Lower(method) \notin RequestsFuncs
         THEN /\ config' = cfg
              /\ log' = log
              /\ bridge' = bridge
              /\ Finish(Exc("AttributeError", "module 'requests' has no attribute"), <<>>)
         ELSE /\ config' = cfg
              /\ log' = Append(log, Entry("raw", req, r))
              /\ bridge' = IF req.method = "put"
                           THEN BridgePut(bridge, fragment, parsed.dict, r)
                           ELSE bridge
              /\ IF o.exc # NoExc THEN Finish(o.exc, <<>>)
                 ELSE Finish(NoExc, <<r.content>>)
  /\ UNCHANGED <<disk, locals>>


(***************************************************************************)
(* huedo toggle <light_id|group_name>                                      *)
(***************************************************************************)
\* the handler up to the first bridge request: int(args.light_group)
\* succeeds (toggle_light, inside the try block) or raises ValueError
\* (the except clause: toggle_lightgroup)
Toggle(light_group) ==
  /\ pc = "idle"
  /\ argv' = [NoArgv EXCEPT !.command = "toggle", !.arg = light_group]
  /\ config' = Load(disk)
  /\ IF IsIntText(light_group)
     THEN /\ light' = ParseInt(light_group)
          /\ in_try' = TRUE
          /\ Goto("light_is_on")
     ELSE /\ light' = light
          /\ in_try' = FALSE
          /\ Goto("toggle_lightgroup")
  /\ UNCHANGED <<disk, bridge, log, new_state, group>>

\* mutant: inside the group loop a failed toggle is tried again
UnwindRetry(e) ==
  IF in_try /\ IsValueError(e)
  THEN /\ in_try' = FALSE
       /\ Goto("toggle_lightgroup")
  ELSE IF in_try
  THEN /\ in_try' = in_try
       /\ Finish(e, <<>>)
  ELSE /\ in_try' = in_try
       /\ Goto("light_is_on")

\* an exception e leaves toggle_light: `except ValueError` of the handler
\* catches it when the handler is inside its try block, otherwise it
\* reaches main
Unwind(e) ==
  IF in_try /\ IsValueError(e)
  THEN /\ in_try' = FALSE
       /\ Goto("toggle_lightgroup")
  ELSE /\ in_try' = in_try
       /\ Finish(e, <<>>)

\* HueDoClient.toggle_lightgroup up to the first toggle_light
ToggleLightgroup ==
  /\ pc = "toggle_lightgroup"
  /\ LET g == GetLightgroup(config.config, argv.arg)
     IN  IF g.exc # NoExc
         THEN Finish(g.exc, <<>>) /\ UNCHANGED <<light, group>>
         ELSE IF g.lights = <<>>
         THEN Finish(NoExc, <<>>) /\ UNCHANGED <<light, group>>
         ELSE /\ light' = Head(g.lights)
              /\ group' = Tail(g.lights)
              /\ Goto("light_is_on")
  /\ UNCHANGED <<disk, bridge, argv, config, log, new_state, in_try>>

\* the client operation a toggle request is made for
ToggleOp == IF in_try THEN "toggle_light" ELSE "toggle_lightgroup"

\* toggle_light, first half: new_state = not self.light_is_on(light)
LightIsOn(r) ==
  /\ pc = "light_is_on"
  /\ LET req == Request("GET", BuildUrl(config.config, LightFragment(IntText(light))), <<>>)
         o == Call(r)
         s == StateOn(o.result)
         e == IF o.exc # NoExc THEN o.exc ELSE s.exc
     IN  /\ log' = Append(log, Entry(ToggleOp, req, r))
         /\ IF e = NoExc
            THEN /\ new_state' = NewState(s.on)
                 /\ in_try' = in_try
                 /\ Goto("toggle_put")
            ELSE /\ new_state' = new_state
                 /\ Unwind(e)
  /\ UNCHANGED <<disk, bridge, argv, config, light, group>>

\* toggle_light, second half: the PUT; then the next light of the group, or
\* the end of the handler
ToggleLightPut(r) ==
  /\ pc = "toggle_put"
  /\ LET fragment == StateFragment(IntText(light))
         req == Request("PUT", BuildUrl(config.config, fragment), ToggleBody(new_state))
         o == Call(r)
     IN  /\ log' = Append(log, Entry(ToggleOp, req, r))
         /\ bridge' = BridgePut(bridge, fragment, ToggleBody(new_state), r)
         /\ IF o.exc # NoExc
            THEN Unwind(o.exc) /\ UNCHANGED <<light, group>>
            ELSE IF group = <<>>
            THEN Finish(NoExc, <<>>) /\ UNCHANGED <<light, group, in_try>>
            ELSE /\ light' = Head(group)
                 /\ group' = Tail(group)
                 /\ in_try' = in_try
                 /\ Goto("light_is_on")
  /\ UNCHANGED <<disk, argv, config, new_state>>

(***************************************************************************)
(* The command lines and the specification                                 *)
(***************************************************************************)
UnknownLight == IntText(MaxLight + 1)

OtherCommands == {"", "lights", "frobnicate"}
HubAddrs == {"10.0.0.2", "10.0.0.9"}
ToggleArgs == {"den"} \cup {IntText(n) : n \in 1..(MaxLight + 1)}
Things == {"lights", "light", "groups"}
LightIds == {"1", UnknownLight}
SetIds == {"1"}
States == {None, StrV("on"), StrV("off")}
Hues == {None, IntV(0)}
Brightnesses == {None, IntV(120)}
Saturations == {None, IntV(7)}
RawFragments == {"lights", "lights/1/state"}
RawMethods == {"GET", "Put", "FOO"}
RawBodies == {"{}", "{\"on\": false}", "{on"}

\* the host of the URLs build_url composes in this invocation
Host == Load(disk).config.hub.ip

Next ==
  \/ \E c \in OtherCommands : MainNoHandler(c)
  \/ \E h \in HubAddrs :
       \E r \in Answers(h, PairingContents) : InitUser(h, r)
  \/ \E a \in ToggleArgs : Toggle(a)
  \/ ToggleLightgroup
  \/ \E r \in Answers(Host, LightContents(bridge, IntText(light))) : LightIsOn(r)
  \/ \E r \in Answers(Host, {PutOkText}) : ToggleLightPut(r)
  \/ \E t \in Things, r \in Answers(Host, {LightsText}) : ListThings(t, r)
  \/ \E i \in LightIds :
       \E r \in Answers(Host, LightContents(bridge, i)) : ShowLightDetails(i, r)
  \/ \E i \in SetIds, s \in States, h \in Hues, b \in Brightnesses,
        sa \in Saturations, r \in Answers(Host, {PutOkText}) :
       SetLightState(i, s, h, b, sa, r)
  \/ \E f \in RawFragments, m \in RawMethods, b \in RawBodies,
        r \in Answers(Host, {PutOkText, LightsText}) : Raw(f, m, b, r)

Spec == Init /\ [][Next]_vars


(***************************************************************************)
(* Vocabulary of the properties                                            *)
(***************************************************************************)
Last(q) == q[Len(q)]

OnText(v) == IF v THEN "{\"on\": true}" ELSE "{\"on\": false}"

AnyLight == 1..(MaxLight + 1)

\* e is the read of light l: GET lights/{l}, no body
IsRead(e, l) ==
  /\ e.method = "get"
  /\ e.url = "https://" \o config.config.hub.ip \o "/api/"
               \o config.config.hub.user \o "/lights/" \o IntText(l)
  /\ e.data = <<>>

\* e is the write of on = v to light l: PUT lights/{l}/state {"on": v}
IsWrite(e, l, v) ==
  /\ e.method = "put"
  /\ e.url = "https://" \o config.config.hub.ip \o "/api/"
               \o config.config.hub.user \o "/lights/" \o IntText(l) \o "/state"
  /\ e.data = <<OnText(v)>>

\* the read was answered 200 with a light object carrying state.on
ReadOk(e) ==
  /\ e.delivered
  /\ e.status_code = 200
  /\ e.content \in {LightText(TRUE), LightText(FALSE)}

ReadOn(e) == e.content = LightText(TRUE)

\* the request was answered 200 with a JSON body
Answered(e) == e.delivered /\ e.status_code = 200 /\ Json(e.content).valid

\* the `toggle` handler called toggle_light(id) itself
DirectToggle == argv.command = "toggle" /\ IsIntText(argv.arg)

\* the requests of the client operation op, in order
OpLog(op) == SelectSeq(log, LAMBDA e : e.op = op)

(***************************************************************************)
(* C1                                                                      *)
(***************************************************************************)
\* C1 as stated: whatever the bridge answers, a finished toggle_light(id)
\* has made exactly one read followed by exactly one write of the negated
\* value, and nothing else.
C1_ExactlyReadThenWrite ==
  (pc = "exited" /\ DirectToggle /\ \A i \in 1..Len(log) : log[i].delivered) =>
    LET L == OpLog("toggle_light")
    IN  /\ Len(L) = 2
        /\ IsRead(L[1], ParseInt(argv.arg))
        /\ IsWrite(L[2], ParseInt(argv.arg), ~ReadOn(L[1]))

\* C1 (amended): toggle_light(id) first issues exactly one read (GET
\* lights/{id}); if that read is answered 200 with a light object carrying
\* state.on, exactly one write (PUT lights/{id}/state) follows it, with no
\* request in between, and the written `on` is the negation of the value
\* read; if the read fails, toggle_light issues no write.  toggle_light
\* makes no other bridge request.
C1_ReadThenNegatedWrite ==
  argv.command = "toggle" =>
    /\ \A i \in 1..Len(log) :
         \/ /\ \E l \in AnyLight : IsRead(log[i], l)
            /\ ReadOk(log[i]) =>
                 IF i = Len(log) THEN pc = "toggle_put"
                 ELSE \E l \in AnyLight :
                        /\ IsRead(log[i], l)
                        /\ IsWrite(log[i + 1], l, ~ReadOn(log[i]))
            /\ ~ReadOk(log[i]) =>
                 (i = Len(log) \/ log[i + 1].method # "put")
         \/ /\ i > 1
            /\ ReadOk(log[i - 1])
            /\ \E l \in AnyLight :
                 /\ IsRead(log[i - 1], l)
                 /\ IsWrite(log[i], l, ~ReadOn(log[i - 1]))
    /\ DirectToggle =>
         LET L == OpLog("toggle_light")
         IN  /\ Len(L) <= 2
             /\ Len(L) >= 1 => (L[1] = log[1] /\ IsRead(L[1], ParseInt(argv.arg)))
             /\ Len(L) = 2 => (L[2] = log[2] /\ log[2].method = "put")
             /\ (pc = "exited" /\ exc = NoExc /\ in_try) => Len(L) = 2

\* a finished toggle_light(id) that read `on` = true and wrote `on` = false
C1_Witness ==
  /\ pc = "exited"
  /\ DirectToggle
  /\ exc = NoExc
  /\ Len(log) = 2
  /\ ReadOk(log[1]) /\ ReadOn(log[1])
  /\ log[2].data = <<OnText(FALSE)>>

(***************************************************************************)
(* C2                                                                      *)
(***************************************************************************)
\* the fields of the `set` command line that were provided, as the body
\* items the claim names
ProvidedItems ==
  SelectSeq(<<<<"on", IF argv.state = None THEN None
                      ELSE BoolV(argv.state = StrV("on"))>>,
              <<"hue", argv.hue>>,
              <<"bri", argv.brightness>>,
              <<"sat", argv.saturation>>>>,
            LAMBDA item : item[2] # None)

RECURSIVE ItemsText(_)
ItemsText(items) ==
  IF items = <<>> THEN ""
  ELSE "\"" \o items[1][1] \o "\": "
         \o (IF items[1][2].t = "bool"
             THEN (IF items[1][2].b THEN "true" ELSE "false")
             ELSE IntText(items[1][2].n))
         \o (IF Len(items) = 1 THEN "" ELSE ", " \o ItemsText(Tail(items)))

\* C2: set_light_state makes no HTTP call when on, hue, brightness and
\* saturation are all unset, and otherwise exactly one PUT to
\* lights/{id}/state whose body has exactly the provided fields (keys on,
\* hue, bri, sat) with the given values, on = False included.
C2_SetSendsProvidedFields ==
  (pc = "exited" /\ argv.command = "set") =>
    IF ProvidedItems = <<>>
    THEN log = <<>>
    ELSE /\ Len(log) = 1
         /\ log[1].method = "put"
         /\ log[1].url = "https://" \o config.config.hub.ip \o "/api/"
                           \o config.config.hub.user \o "/lights/"
                           \o argv.arg \o "/state"
         /\ log[1].data = <<"{" \o ItemsText(ProvidedItems) \o "}">>

\* set --state off alone: one PUT whose body is {"on": false}
C2_Witness ==
  /\ pc = "exited"
  /\ argv.command = "set"
  /\ argv.state = StrV("off")
  /\ argv.hue = None /\ argv.brightness = None /\ argv.saturation = None
  /\ Len(log) = 1
  /\ log[1].data = <<"{\"on\": false}">>

(***************************************************************************)
(* C3                                                                      *)
(***************************************************************************)
\* C3: in create_user(hub_ip), a 200 response [{success: {username: u}}]
\* sets the config's hub to ip = hub_ip, user = u (the rest of the config
\* kept) and writes that config to disk; a 200 response
\* [{error: {description: d}}] fails with HueDoError(d) and leaves the
\* config as loaded and the file untouched.
C3_PairingPersistsOrFails ==
  [][(pc = "idle" /\ argv'.command = "init")
       => LET e == Last(log')
              loaded == IF disk = {} THEN DefaultConfig ELSE CHOOSE d \in disk : TRUE
          IN  /\ \A u \in Usernames :
                   (Answered(e) /\ e.content = PairedText(u)) =>
                     /\ config'.config.hub = [ip |-> argv'.arg, user |-> u]
                     /\ config'.config = [loaded EXCEPT !.hub = config'.config.hub]
                     /\ disk' = {config'.config}
                     /\ exc' = NoExc
              /\ \A d \in Descriptions :
                   (Answered(e) /\ e.content = PairErrText(d)) =>
                     /\ exc' = [type |-> "HueDoError", msg |-> d, code |-> 1]
                     /\ config'.config = loaded
                     /\ disk' = disk
     ]_vars

\* a pairing that succeeded with username abc against hub 10.0.0.9
C3_Witness ==
  /\ pc = "exited"
  /\ argv.command = "init"
  /\ argv.arg = "10.0.0.9"
  /\ Last(log).content = PairedText("abc")
  /\ Answered(Last(log))
  /\ disk = {config.config}
  /\ config.config.hub = [ip |-> "10.0.0.9", user |-> "abc"]


(***************************************************************************)
(* C4                                                                      *)
(***************************************************************************)
BadStatus(e) == e.delivered /\ e.status_code # 200

\* C4: a response whose status is not 200 makes call raise HueDoError with
\* the status code and the response body in its message; the response is
\* not used as a result (nothing of it is printed or stored, main prints
\* only the error), and the process makes no further bridge request.
C4_Non200Raises ==
  [][/\ (log' # log /\ BadStatus(Last(log'))) =>
          LET e == Last(log')
              msg == "Got unexpected response code "
                       \o (IF e.status_code = 500 THEN "500" ELSE "201")
                       \o ": b'" \o e.content \o "'"
          IN  /\ pc' = "exited"
              /\ exc' = [type |-> "HueDoError", msg |-> msg, code |-> 1]
              /\ Last(out') = "Error: " \o msg
              /\ \A k \in 1..Len(out') : out'[k] # e.content
              /\ new_state' = new_state
              /\ disk' = disk
              /\ exitcode' = 0
     /\ (log # <<>> /\ BadStatus(Last(log))) => log' = log
    ]_vars

\* the second light of a group answered 201 to its read: the toggle ended
\* there with the error
C4_Witness ==
  /\ pc = "exited"
  /\ Len(log) = 3
  /\ log[3].status_code = 201
  /\ log[3].content = "created"
  /\ exc = [type |-> "HueDoError",
            msg |-> "Got unexpected response code 201: b'created'", code |-> 1]

(***************************************************************************)
(* C5                                                                      *)
(***************************************************************************)
\* the group toggle was entered: the handler is past its try block
GroupOpEnded == pc = "exited" /\ argv.command = "toggle" /\ ~in_try

\* C5: with a config that has no lightgroups key, asking for any group
\* fails with HueDoError "Unconfigured light group <name>", which main
\* prints as "Error: <message>", and no bridge request is made for it.
C5_NoGroupsKeyIsUnconfigured ==
  (GroupOpEnded /\ "lightgroups" \notin DOMAIN config.config) =>
    /\ exc = [type |-> "HueDoError",
              msg |-> "Unconfigured light group " \o argv.arg, code |-> 1]
    /\ out # <<>>
    /\ Last(out) = "Error: Unconfigured light group " \o argv.arg
    /\ OpLog("toggle_lightgroup") = <<>>

(***************************************************************************)
(* C6                                                                      *)
(***************************************************************************)
\* the lights the group toggle iterates over
GroupLights == GetLightgroup(config.config, argv.arg).lights

\* request i of a toggle_light succeeded, so that toggle_light goes on
StepOk(e) == IF e.method = "get" THEN ReadOk(e) ELSE Answered(e)

\* C6: toggle_lightgroup(name) toggles the group's lights one at a time in
\* the configured order (request 2k-1 is the read and request 2k the write
\* of the k-th light); a request that fails is the last one made, so no
\* later light gets a request and no compensating write is made; every
\* light keeps the last value written to it; the operation ends without
\* error only after all the lights were toggled.
C6_GroupSequentialAbort ==
  LET L == OpLog("toggle_lightgroup")
      G == GroupLights
  IN  (argv.command = "toggle" /\ L # <<>>) =>
        /\ Len(L) <= 2 * Len(G)
        /\ \A i \in 1..Len(L) :
             /\ i % 2 = 1 => IsRead(L[i], G[(i + 1) \div 2])
             /\ i % 2 = 0 => IsWrite(L[i], G[i \div 2], ~ReadOn(L[i - 1]))
             /\ ~StepOk(L[i]) => (i = Len(L) /\ pc = "exited" /\ exc # NoExc)
        /\ \A l \in Lights :
             \A i \in 1..Len(L) :
               (/\ IsWrite(L[i], l, TRUE) \/ IsWrite(L[i], l, FALSE)
                /\ L[i].delivered /\ L[i].status_code = 200
                /\ \A j \in (i + 1)..Len(L) :
                     ~(/\ IsWrite(L[j], l, TRUE) \/ IsWrite(L[j], l, FALSE)
                       /\ L[j].delivered /\ L[j].status_code = 200))
                 => bridge[l] = IsWrite(L[i], l, TRUE)
        /\ (pc = "exited" /\ exc = NoExc) => Len(L) = 2 * Len(G)

\* a group of two distinct lights: the first was toggled, the read of the
\* second failed with status 500, and the first keeps its new state
C6_Witness ==
  LET L == OpLog("toggle_lightgroup")
      G == GroupLights
  IN  /\ pc = "exited"
      /\ argv.command = "toggle"
      /\ Len(G) = 2 /\ G[1] # G[2]
      /\ Len(L) = 3
      /\ Answered(L[2])
      /\ L[3].status_code = 500
      /\ bridge[G[1]] = ~ReadOn(L[1])

(***************************************************************************)
(* C7                                                                      *)
(***************************************************************************)
\* C7: an unknown command, and `raw` with a body that is not valid JSON,
\* each print a message and end the process with a non-zero exit status,
\* without any bridge request.
C7_BadInvocationExitsNonZero ==
  (/\ pc = "exited"
   /\ \/ argv.command \notin DISPATCH_TABLE \cup {""}
      \/ argv.command = "raw" /\ argv.body \notin {"{}", "{\"on\": true}", "{\"on\": false}"})
    => /\ exitcode # 0
       /\ out # <<>> \/ err # <<>>
       /\ log = <<>>

(***************************************************************************)
(* C8                                                                      *)
(***************************************************************************)
GroupConfigured ==
  /\ "lightgroups" \in DOMAIN config.config
  /\ argv.arg \in DOMAIN config.config.lightgroups

\* C8 as stated: a group toggle whose name is absent from the config, or
\* whose lights list is empty, fails.
C8_EmptyOrAbsentGroupFails ==
  (GroupOpEnded /\ (~GroupConfigured \/ GroupLights = <<>>)) => exc # NoExc

\* C8 (amended): a group operation succeeds only if the group name resolves
\* to a list of light ids: toggling a group whose name is absent from the
\* config fails, with no bridge request for the group; a group whose
\* configured lights list is empty completes successfully (exit status 0),
\* again with no bridge request for the group.
C8_AbsentFailsEmptySucceeds ==
  GroupOpEnded =>
    /\ ~GroupConfigured =>
         (exc # NoExc /\ exc.type \in {"HueDoError", "KeyError"}
            /\ OpLog("toggle_lightgroup") = <<>>)
    /\ (GroupConfigured /\ config.config.lightgroups[argv.arg].lights = <<>>) =>
         (exc = NoExc /\ exitcode = 0 /\ OpLog("toggle_lightgroup") = <<>>)
    /\ exc = NoExc => GroupConfigured

\* `toggle den` with den configured as an empty list ended without error
C8_Witness ==
  /\ GroupOpEnded
  /\ argv.arg = "den"
  /\ GroupConfigured
  /\ config.config.lightgroups["den"].lights = <<>>
  /\ exc = NoExc
  /\ log = <<>>

(***************************************************************************)
(* C9                                                                      *)
(***************************************************************************)
\* C9: when the argument of `toggle` parses as an integer, the group lookup
\* and the group toggle are never performed for it, whatever the bridge
\* answers.
\* (Stated for a client whose config names a hub, so that every request
\* reaches the bridge and it is the bridge's answer that decides.)
C9_IntegerNeverGroup ==
  (DirectToggle /\ config.loaded /\ config.config.hub.ip # "") =>
    (pc # "toggle_lightgroup" /\ in_try /\ OpLog("toggle_lightgroup") = <<>>)

(***************************************************************************)
(* C10                                                                     *)
(***************************************************************************)
\* C10: in create_user, a 200 JSON response that is neither a list whose
\* first element has `success` nor a list whose first element has `error`
\* fails with HueDoError, and the config is neither modified nor written.
C10_OtherShapesAreDomainErrors ==
  [][(/\ pc = "idle"
      /\ argv'.command = "init"
      /\ Answered(Last(log'))
      /\ Last(log').content \in {"[]", "[{}]", "{}"})
       => /\ exc'.type = "HueDoError"
          /\ disk' = disk
          /\ config'.config = Load(disk).config
     ]_vars

====
